---- MODULE Spec2Model ----
(***************************************************************************)
(* Feedback-directed L2 prefetchers of dpc2sim: src/src/fdp.c (stream      *)
(* detector) and src/src/ampm.c (access-map pattern matcher).  Both files  *)
(* share the prefetch-tracking mirror (mshr arrays), the useful-bit store,  *)
(* the pollution vector (prefetch_evict), the interval counters, the       *)
(* smoothed totals and the aggressiveness controller.                      *)
(*                                                                         *)
(* Addresses are byte addresses.  The float totals are held as integers    *)
(* scaled by Scale = 2^16: with alpha = 0.5 every total is a dyadic        *)
(* rational, and within the event bound it is exactly representable in a   *)
(* 24-bit float mantissa, so the scaled arithmetic is the float arithmetic.*)
(***************************************************************************)
EXTENDS Integers, Sequences, FiniteSets, TLC

VARIABLES
    variant,            \* "FDP" or "AMPM": which translation unit is built
    useful_bit,         \* set of <<set, way>> whose useful_bit[set][way] is 1
    mshr_addr,          \* [0..MSHR_SIZE-1 -> cache-line index]
    mshr_valid,         \* [0..MSHR_SIZE-1 -> 0..1]
    late_bit,           \* [0..MSHR_SIZE-1 -> 0..1]
    prefetch_evict,     \* set of hash indices whose prefetch_evict[] is 1
    used_cnt, prefetch_cnt, late_cnt, miss_cnt, miss_prefetch_cnt, evict_cnt,
    used_total, prefetch_total, late_total, miss_total, miss_prefetch_total,
    prefetch_degree, stream_window, aggressive_level,
    detectors,          \* FDP: [0..STREAM_DETECTOR_COUNT-1 -> stream_detector_t]
    replacement_index,  \* FDP
    ampm_pages,         \* AMPM: [0..AMPM_PAGE_COUNT-1 -> ampm_page_t]
    aborted,            \* TRUE once an assert() has failed (the process is gone)
    cycle,              \* events delivered so far; also get_current_cycle()
    issued,             \* l2_prefetch_line calls of the last event: <<pf_addr, fill_level>>
    last,               \* the last event delivered (op, hit; for a fill: prefetch,
                        \* and evicted when evicted_addr # 0) and what its handler
                        \* found: useful (the useful bit was set), late (a late
                        \* entry was consumed), matched (the mirror entry a fill
                        \* removed), closed (the fill closed an interval)
    intervals,          \* number of intervals closed so far
    replay              \* the run since l2_prefetcher_initialize, kept by the
                        \* specifications that deliver an event log twice: the
                        \* events (log), the l2_prefetch_line calls and the level
                        \* after each (outs), and whether the log is being
                        \* delivered again after a second initialization

cnts   == <<used_cnt, prefetch_cnt, late_cnt, miss_cnt, miss_prefetch_cnt, evict_cnt>>
totals == <<used_total, prefetch_total, late_total, miss_total, miss_prefetch_total>>
knobs  == <<prefetch_degree, stream_window, aggressive_level>>
mirror == <<mshr_addr, mshr_valid, late_bit>>
vars   == <<variant, useful_bit, mirror, prefetch_evict, cnts, totals, knobs,
           detectors, replacement_index, ampm_pages, aborted, cycle, issued,
           last, intervals, replay>>

(***************************************************************************)
(* Bounds of the model.  The source sizes are 512 (T_INTERVAL), 2048       *)
(* (MSHR_SIZE), 64 (STREAM_DETECTOR_COUNT) and 64 (AMPM_PAGE_COUNT); the   *)
(* model keeps their roles and scales them down.                           *)
(***************************************************************************)
T_INTERVAL == 2
MSHR_SIZE == 2
STREAM_DETECTOR_COUNT == 1
AMPM_PAGE_COUNT == 1
MaxEvents == 4
MaxDeep == 9
MaxDeepAmpm == 7

(***************************************************************************)
(* Program constants.                                                      *)
(***************************************************************************)
FILL_L2 == "FILL_L2"
FILL_LLC == "FILL_LLC"
Scale == 2^16

Slots == 0 .. (MSHR_SIZE - 1)

(***************************************************************************)
(* Address decoder.                                                        *)
(***************************************************************************)
RECURSIVE Xor(_, _)
Xor(a, b) ==
    IF a = 0 THEN b
    ELSE IF b = 0 THEN a
    ELSE (((a % 2) + (b % 2)) % 2) + 2 * Xor(a \div 2, b \div 2)

ClOf(addr) == addr \div 64
PageOf(addr) == ClOf(addr) \div 64
OffsetOf(addr) == ClOf(addr) % 64
VirtAddr(cl) == Xor(cl % 4096, (cl \div 4096) % 4096)

(***************************************************************************)
(* Prefetch-tracking mirror: the two linear scans of the source.           *)
(***************************************************************************)
\* while (i < MSHR_SIZE) { if (mshr_valid[i] && mshr_addr[i] == cl) break; i++; }
MshrFind(valid, addrs, cl) ==
    IF \E i \in Slots : valid[i] = 1 /\ addrs[i] = cl
    THEN CHOOSE i \in Slots :
            /\ valid[i] = 1 /\ addrs[i] = cl
            /\ \A j \in Slots : (valid[j] = 1 /\ addrs[j] = cl) => i <= j
    ELSE MSHR_SIZE

\* while (i < MSHR_SIZE) { if (!mshr_valid[i]) break; i++; }
MshrFirstFree(valid) ==
    IF \E i \in Slots : valid[i] = 0
    THEN CHOOSE i \in Slots : valid[i] = 0 /\ \A j \in Slots : valid[j] = 0 => i <= j
    ELSE MSHR_SIZE

(***************************************************************************)
(* Demand part of l2_prefetcher_operate (identical in both files): the     *)
(* useful-bit check on a hit; the miss count, the lateness check and the   *)
(* pollution check on a miss.  s and w are what l2_get_set and l2_get_way  *)
(* return for addr on a hit.                                               *)
(***************************************************************************)
DemandUseful(hit, s, w) ==
    IF hit /\ <<s, w>> \in useful_bit THEN useful_bit \ {<<s, w>>} ELSE useful_bit

\* LateHit without the test of the late bit
LateHit_AnyEntry(hit, cl) ==
    LET m == MshrFind(mshr_valid, mshr_addr, cl)
    IN  IF ~hit /\ m < MSHR_SIZE THEN m ELSE MSHR_SIZE

\* the late entry a demand miss on cl consumes, or MSHR_SIZE
LateHit(hit, cl) ==
    LET m == MshrFind(mshr_valid, mshr_addr, cl)
    IN  IF ~hit /\ m < MSHR_SIZE /\ late_bit[m] = 1 THEN m ELSE MSHR_SIZE

\* DemandUsed counting every demand hit
DemandUsed_AnyHit(hit, s, w, cl) ==
    IF hit THEN used_cnt + 1
    ELSE (IF LateHit(hit, cl) < MSHR_SIZE THEN used_cnt + 1 ELSE used_cnt)

DemandUsed(hit, s, w, cl) ==
    IF hit
    THEN (IF <<s, w>> \in useful_bit THEN used_cnt + 1 ELSE used_cnt)
    ELSE (IF LateHit(hit, cl) < MSHR_SIZE THEN used_cnt + 1 ELSE used_cnt)

DemandLate(hit, cl) ==
    IF LateHit(hit, cl) < MSHR_SIZE THEN late_cnt + 1 ELSE late_cnt

DemandLateBit(hit, cl) ==
    IF LateHit(hit, cl) < MSHR_SIZE
    THEN [late_bit EXCEPT ![LateHit(hit, cl)] = 0]
    ELSE late_bit

DemandMiss(hit) == IF hit THEN miss_cnt ELSE miss_cnt + 1

\* DemandMissPrefetch that checks the pollution vector on hits too
DemandMissPrefetch_AnyAccess(hit, cl) ==
    IF VirtAddr(cl) \in prefetch_evict
    THEN miss_prefetch_cnt + 1
    ELSE miss_prefetch_cnt


DemandMissPrefetch(hit, cl) ==
    IF ~hit /\ VirtAddr(cl) \in prefetch_evict
    THEN miss_prefetch_cnt + 1
    ELSE miss_prefetch_cnt

(***************************************************************************)
(* Interval close: EWMA, metrics, levels, update rule, knobs.              *)
(***************************************************************************)
\* X_total = alpha * X_total + (1 - alpha) * X_cnt; if (X_total < eps) X_total = 0;
\* eps = 1e-3f: a scaled total t is below eps exactly when t * 1000 < Scale,
\* that is when t <= (Scale - 1) \div 1000.
Ewma(total, cnt) ==
    LET t == (total + cnt * Scale) \div 2
    IN  IF t <= (Scale - 1) \div 1000 THEN 0 ELSE t

\* FdpClosePrefetchCnt without the raise to used_cnt
FdpClosePrefetchCnt_NoRaise(pc, valid, uc) ==
    pc + Cardinality({i \in Slots : valid[i] = 1})


\* FDP only: prefetch_cnt += number of valid mirror entries; then at least used_cnt
FdpClosePrefetchCnt(pc, valid, uc) ==
    LET n == pc + Cardinality({i \in Slots : valid[i] = 1})
    IN  IF n < uc THEN uc ELSE n

\* acc = used_total / prefetch_total (0 if prefetch_total == 0), against
\* A_LOW = 0.40 and A_HIGH = 0.75
acc_level(ut, pt) ==
    IF pt = 0 THEN 0
    ELSE IF 5 * ut < 2 * pt THEN 0
    ELSE IF 4 * ut < 3 * pt THEN 1
    ELSE 2

\* lat = late_total / used_total (0 if used_total == 0), a float, against the
\* double T_LAT = 0.01: the float nearest 1/100 is below the double 0.01, so a
\* ratio of exactly 1/100 still compares less.
lat_level(lt, ut) ==
    IF ut = 0 THEN 0
    ELSE IF 100 * lt <= ut THEN 0
    ELSE 1

\* pol = miss_prefetch_total / miss_total (0 if miss_total == 0), a float,
\* against the double T_POL = 0.005 (the float nearest 1/200 is below it).
pol_level(mpt, mt) ==
    IF mt = 0 THEN 0
    ELSE IF 200 * mpt <= mt THEN 0
    ELSE 1

\* update_rule with case 1 falling through to case 2
update_rule_Fallthrough(a, l, p) ==
    CASE a = 0 -> (IF l = 1 THEN -1 ELSE (IF p = 1 THEN -1 ELSE 0))
      [] a = 1 -> (IF l = 1 THEN 1 ELSE (IF p = 1 THEN -1 ELSE 0))
      [] a = 2 -> (IF l = 1 THEN 1 ELSE (IF p = 1 THEN -1 ELSE 0))

update_rule(a, l, p) ==
    CASE a = 0 -> (IF l = 1 THEN -1 ELSE (IF p = 1 THEN -1 ELSE 0))
      [] a = 1 -> (IF l = 1 THEN (IF p = 1 THEN -1 ELSE 1)
                            ELSE (IF p = 1 THEN -1 ELSE 0))
      [] a = 2 -> (IF l = 1 THEN 1 ELSE (IF p = 1 THEN -1 ELSE 0))

\* NextLevel without the clamp
NextLevel_NoClamp(level, rule) == level + rule

\* aggressive_level += update_rule; clamp to [1, 5]
NextLevel(level, rule) ==
    LET n == level + rule
    IN  IF n > 5 THEN 5 ELSE IF n < 1 THEN 1 ELSE n

\* switch (aggressive_level) without a default: other values leave the knob alone
DegreeOf(level) ==
    CASE level = 1 -> 1
      [] level = 2 -> 1
      [] level = 3 -> 2
      [] level = 4 -> 4
      [] level = 5 -> 4
      [] OTHER -> prefetch_degree

\* fdp.c only; ampm.c leaves stream_window alone
WindowOf(level) ==
    CASE level = 1 -> 4
      [] level = 2 -> 8
      [] level = 3 -> 16
      [] level = 4 -> 32
      [] level = 5 -> 64
      [] OTHER -> stream_window

\* IntervalReached one eviction early
IntervalReached_Early(ec) == ec = T_INTERVAL - 1


\* IntervalReached one eviction late
IntervalReached_Late(ec) == ec = T_INTERVAL + 1

\* if (evict_cnt == T_INTERVAL), tested after this fill's increment
IntervalReached(ec) == ec = T_INTERVAL

(***************************************************************************)
(* l2_cache_fill.  The two files differ only in the prefetch count folded  *)
(* at the close (fdp.c adds the valid mirror entries and raises the count  *)
(* to used_cnt) and in the knobs set (ampm.c sets prefetch_degree only).   *)
(***************************************************************************)
FillEvict(evicted_addr) == IF evicted_addr # 0 THEN evict_cnt + 1 ELSE evict_cnt

\* FillUseful that also zeroes the bit when a prefetch fill matches no entry
FillUseful_ClearUnmatched(m, set, way, prefetch) ==
    IF prefetch /\ m < MSHR_SIZE /\ late_bit[m] = 1
    THEN useful_bit \cup {<<set, way>>}
    ELSE useful_bit \ {<<set, way>>}


FillUseful(m, set, way, prefetch) ==
    LET u1 == IF m < MSHR_SIZE
              THEN (IF late_bit[m] = 1 THEN useful_bit \cup {<<set, way>>}
                                       ELSE useful_bit \ {<<set, way>>})
              ELSE useful_bit
    IN  IF prefetch THEN u1 ELSE u1 \ {<<set, way>>}

\* FillPollution without the reset of the fetched line's bucket
FillPollution_NoReset(addr, prefetch, evicted_addr) ==
    LET ve == VirtAddr(ClOf(evicted_addr))
    IN  IF evicted_addr = 0 THEN prefetch_evict
        ELSE IF prefetch THEN prefetch_evict \cup {ve}
        ELSE prefetch_evict \ {ve}

FillPollution(addr, prefetch, evicted_addr) ==
    LET ve == VirtAddr(ClOf(evicted_addr))
        p1 == IF evicted_addr = 0 THEN prefetch_evict
              ELSE IF prefetch THEN prefetch_evict \cup {ve}
              ELSE prefetch_evict \ {ve}
    IN  p1 \ {VirtAddr(ClOf(addr))}

CacheFill(addr, set, way, prefetch, evicted_addr) ==
    LET ec == FillEvict(evicted_addr)
        m  == MshrFind(mshr_valid, mshr_addr, ClOf(addr))
        valid1 == IF m < MSHR_SIZE THEN [mshr_valid EXCEPT ![m] = 0] ELSE mshr_valid
        late1  == IF m < MSHR_SIZE THEN [late_bit EXCEPT ![m] = 0] ELSE late_bit
        pc1 == IF prefetch THEN prefetch_cnt + 1 ELSE prefetch_cnt
        close == IntervalReached(ec)
        pc2 == IF variant = "FDP" THEN FdpClosePrefetchCnt(pc1, valid1, used_cnt) ELSE pc1
        ut == Ewma(used_total, used_cnt)
        pt == Ewma(prefetch_total, pc2)
        lt == Ewma(late_total, late_cnt)
        mt == Ewma(miss_total, miss_cnt)
        mpt == Ewma(miss_prefetch_total, miss_prefetch_cnt)
        rule == update_rule(acc_level(ut, pt), lat_level(lt, ut), pol_level(mpt, mt))
        level == NextLevel(aggressive_level, rule)
    IN  /\ ~aborted
        /\ prefetch_evict' = FillPollution(addr, prefetch, evicted_addr)
        /\ useful_bit' = FillUseful(m, set, way, prefetch)
        /\ mshr_valid' = valid1
        /\ late_bit' = late1
        /\ mshr_addr' = mshr_addr
        /\ IF close
           THEN /\ evict_cnt' = 0
                /\ used_total' = ut
                /\ prefetch_total' = pt
                /\ late_total' = lt
                /\ miss_total' = mt
                /\ miss_prefetch_total' = mpt
                /\ used_cnt' = 0
                /\ prefetch_cnt' = 0
                /\ late_cnt' = 0
                /\ miss_cnt' = 0
                /\ miss_prefetch_cnt' = 0
                /\ aggressive_level' = level
                /\ prefetch_degree' = DegreeOf(level)
                /\ stream_window' = IF variant = "FDP" THEN WindowOf(level) ELSE stream_window
                /\ intervals' = intervals + 1
           ELSE /\ evict_cnt' = ec
                /\ prefetch_cnt' = pc1
                /\ UNCHANGED <<used_cnt, late_cnt, miss_cnt, miss_prefetch_cnt>>
                /\ UNCHANGED <<totals, knobs, intervals>>
        /\ cycle' = cycle + 1
        /\ issued' = <<>>
        /\ last' = [op |-> "fill", hit |-> FALSE, useful |-> FALSE, late |-> FALSE,
                    matched |-> IF m >= MSHR_SIZE THEN "none"
                                ELSE IF late_bit[m] = 1 THEN "late" ELSE "consumed",
                    closed |-> close, prefetch |-> prefetch,
                    evicted |-> evicted_addr # 0]
        /\ UNCHANGED <<variant, detectors, replacement_index, ampm_pages, aborted>>

(***************************************************************************)
(* fdp.c: the stream detector.                                             *)
(***************************************************************************)
\* for (i = 0; i < STREAM_DETECTOR_COUNT; i++) if (detectors[i].page == page) ...
DetectorFind(page) ==
    LET D == 0 .. (STREAM_DETECTOR_COUNT - 1)
    IN  IF \E i \in D : detectors[i].page = page
        THEN CHOOSE i \in D : /\ detectors[i].page = page
                              /\ \A j \in D : detectors[j].page = page => i <= j
        ELSE -1

DetectorAlloc(page, page_offset) ==
    [page |-> page, direction |-> 0, confidence |-> 0, pf_index |-> page_offset]

\* InWindow with the boundary inside the window
InWindow_Inclusive(delta, window) ==
    IF delta > 0 THEN delta <= window
    ELSE IF delta < 0 THEN (0 - delta) <= window
    ELSE FALSE


\* does an access at distance delta = page_offset - pf_index train the detector?
InWindow(delta, window) ==
    IF delta > 0 THEN delta < window
    ELSE IF delta < 0 THEN (0 - delta) < window
    ELSE FALSE

\* train on the new access
Train(d, page_offset, window) ==
    LET delta == page_offset - d.pf_index
    IN  IF ~InWindow(delta, window) THEN d
        ELSE IF delta > 0
        THEN [d EXCEPT !.confidence = IF d.direction = -1 THEN 0 ELSE @ + 1,
                       !.direction = 1]
        ELSE [d EXCEPT !.confidence = IF d.direction = 1 THEN 0 ELSE @ + 1,
                       !.direction = -1]

\* we've gone off the edge of a 4 KB page
OffPage(pf_index) == pf_index < 0 \/ pf_index > 63

\* get_l2_mshr_occupancy(0) > 8: conservatively prefetch into the LLC
FdpToLLC(occ) == occ > 8

\* Add to MSHR: unless a valid entry for the line looked up exists, take the
\* first free slot for cl.  fdp.c looks up the prefetched line (pf_address >> 6),
\* ampm.c looks up cl_address, the line of the triggering access.  The
\* assert(mshr_index < MSHR_SIZE) fails when no slot is free.
MshrRegister(st, lookup, cl) ==
    IF MshrFind(st.valid, st.addrs, lookup) < MSHR_SIZE THEN st
    ELSE LET f == MshrFirstFree(st.valid)
         IN  IF f >= MSHR_SIZE THEN [st EXCEPT !.aborted = TRUE]
             ELSE [st EXCEPT !.valid[f] = 1, !.addrs[f] = cl, !.late[f] = 1]

\* the prefetch loop: for (i = 0; i < prefetch_degree; i++) { ... }
\* st carries pf_index, the mirror, the calls made and the assertion outcome;
\* pf_way is what l2_get_way returns for the prefetch address (-1: not in L2).
RECURSIVE FdpPrefetchLoop(_, _, _, _, _, _, _)
FdpPrefetchLoop(i, st, degree, direction, page, occ, pf_way) ==
    IF i >= degree \/ st.aborted THEN st
    ELSE LET s1 == [st EXCEPT !.pf_index = @ + direction]
             pf_address == page * 4096 + s1.pf_index * 64
         IN  IF OffPage(s1.pf_index) THEN s1
             ELSE IF FdpToLLC(occ)
             THEN FdpPrefetchLoop(i + 1,
                      [s1 EXCEPT !.calls = Append(@, <<pf_address, FILL_LLC>>)],
                      degree, direction, page, occ, pf_way)
             ELSE LET s2 == [s1 EXCEPT !.calls = Append(@, <<pf_address, FILL_L2>>)]
                  IN  IF pf_way # -1
                      THEN FdpPrefetchLoop(i + 1, s2, degree, direction, page, occ, pf_way)
                      ELSE FdpPrefetchLoop(i + 1,
                               MshrRegister(s2, ClOf(pf_address), ClOf(pf_address)),
                                           degree, direction, page, occ, pf_way)

fdp_l2_prefetcher_operate(addr, cache_hit, s, w, occ, pf_way) ==
    LET cl == ClOf(addr)
        page == PageOf(addr)
        page_offset == OffsetOf(addr)
        found == DetectorFind(page)
        detector_index == IF found = -1 THEN replacement_index ELSE found
        d0 == IF found = -1 THEN DetectorAlloc(page, page_offset) ELSE detectors[found]
        d1 == Train(d0, page_offset, stream_window)
        st0 == [pf_index |-> d1.pf_index, valid |-> mshr_valid, addrs |-> mshr_addr,
                late |-> DemandLateBit(cache_hit, cl), calls |-> <<>>, aborted |-> FALSE]
        st == IF d1.confidence >= 2
              THEN FdpPrefetchLoop(0, st0, prefetch_degree, d1.direction, page, occ, pf_way)
              ELSE st0
    IN  /\ variant = "FDP"
        /\ ~aborted
        /\ useful_bit' = DemandUseful(cache_hit, s, w)
        /\ used_cnt' = DemandUsed(cache_hit, s, w, cl)
        /\ miss_cnt' = DemandMiss(cache_hit)
        /\ late_cnt' = DemandLate(cache_hit, cl)
        /\ miss_prefetch_cnt' = DemandMissPrefetch(cache_hit, cl)
        /\ replacement_index' =
              IF found # -1 THEN replacement_index
              ELSE IF replacement_index + 1 >= STREAM_DETECTOR_COUNT THEN 0
              ELSE replacement_index + 1
        /\ detectors' = [detectors EXCEPT ![detector_index] =
                                            [d1 EXCEPT !.pf_index = st.pf_index]]
        /\ mshr_valid' = st.valid
        /\ mshr_addr' = st.addrs
        /\ late_bit' = st.late
        /\ aborted' = st.aborted
        /\ issued' = st.calls
        /\ cycle' = cycle + 1
        /\ last' = [op |-> "access", hit |-> cache_hit,
                    useful |-> cache_hit /\ <<s, w>> \in useful_bit,
                    late |-> LateHit(cache_hit, cl) < MSHR_SIZE,
                    matched |-> "none", closed |-> FALSE,
                    prefetch |-> FALSE, evicted |-> FALSE]
        /\ UNCHANGED <<variant, prefetch_evict, prefetch_cnt, evict_cnt, totals, knobs,
                       ampm_pages, intervals>>

(***************************************************************************)
(* ampm.c: the access-map pattern matcher.                                 *)
(***************************************************************************)
\* the indices of the page table: AMPM_PAGE_COUNT of them, fewer in the model
Pages == DOMAIN ampm_pages

\* get_current_cycle(0): the event being delivered is event number cycle + 1
CurrentCycle == cycle + 1

\* for (i = 0; i < AMPM_PAGE_COUNT; i++) if (ampm_pages[i].page == page) ...
PageFind(page) ==
    IF \E i \in Pages : ampm_pages[i].page = page
    THEN CHOOSE i \in Pages : /\ ampm_pages[i].page = page
                              /\ \A j \in Pages : ampm_pages[j].page = page => i <= j
    ELSE -1

\* find the oldest page: the first index holding the smallest lru
LruIndex ==
    CHOOSE i \in Pages :
        /\ \A j \in Pages : ampm_pages[i].lru <= ampm_pages[j].lru
        /\ \A j \in Pages : ampm_pages[j].lru = ampm_pages[i].lru => i <= j

\* PageReset leaving pf_map as it was
PageReset_KeepPfMap(old, page) ==
    [old EXCEPT !.page = page, !.access_map = {}]

\* reset the oldest page (its lru is overwritten by the caller)
PageReset(old, page) ==
    [old EXCEPT !.page = page, !.access_map = {}, !.pf_map = {}]

\* positive scan: L2 if get_l2_mshr_occupancy(0) < 8
AmpmPosToL2(occ) == occ < 8
\* negative scan: L2 if get_l2_mshr_occupancy(0) < 12
AmpmNegToL2(occ) == occ < 12

\* positive scan that never marks pf_map
RECURSIVE PositiveScan_NoMark(_, _, _, _, _, _, _)
PositiveScan_NoMark(i, st, degree, access_map, page, page_offset, occ) ==
    LET check_index1 == page_offset - i
        check_index2 == page_offset - 2 * i
        pf_index == page_offset + i
        pf_address == page * 4096 + pf_index * 64
    IN  IF i > 16 THEN st
        ELSE IF check_index2 < 0 THEN st
        ELSE IF pf_index > 63 THEN st
        ELSE IF st.count >= degree THEN st
        ELSE IF pf_index \in access_map \/ pf_index \in st.pf_map
        THEN PositiveScan_NoMark(i + 1, st, degree, access_map, page, page_offset, occ)
        ELSE IF check_index1 \in access_map /\ check_index2 \in access_map
        THEN PositiveScan_NoMark(i + 1,
                 [st EXCEPT !.calls = Append(@, <<pf_address,
                                IF AmpmPosToL2(occ) THEN FILL_L2 ELSE FILL_LLC>>),
                            !.count = @ + 1],
                 degree, access_map, page, page_offset, occ)
        ELSE PositiveScan_NoMark(i + 1, st, degree, access_map, page, page_offset, occ)


\* positive prefetching: for (i = 1; i <= 16; i++) { ... }
RECURSIVE PositiveScan(_, _, _, _, _, _, _)
PositiveScan(i, st, degree, access_map, page, page_offset, occ) ==
    LET check_index1 == page_offset - i
        check_index2 == page_offset - 2 * i
        pf_index == page_offset + i
        pf_address == page * 4096 + pf_index * 64
    IN  IF i > 16 THEN st
        ELSE IF check_index2 < 0 THEN st
        ELSE IF pf_index > 63 THEN st
        ELSE IF st.count >= degree THEN st
        ELSE IF pf_index \in access_map \/ pf_index \in st.pf_map
        THEN PositiveScan(i + 1, st, degree, access_map, page, page_offset, occ)
        ELSE IF check_index1 \in access_map /\ check_index2 \in access_map
        THEN PositiveScan(i + 1,
                 [st EXCEPT !.calls = Append(@, <<pf_address,
                                IF AmpmPosToL2(occ) THEN FILL_L2 ELSE FILL_LLC>>),
                            !.pf_map = @ \cup {pf_index},
                            !.count = @ + 1],
                 degree, access_map, page, page_offset, occ)
        ELSE PositiveScan(i + 1, st, degree, access_map, page, page_offset, occ)

\* negative prefetching: for (i = 1; i <= 16; i++) { ... }
RECURSIVE NegativeScan(_, _, _, _, _, _, _, _)
NegativeScan(i, st, degree, access_map, page, page_offset, occ, cl_address) ==
    LET check_index1 == page_offset + i
        check_index2 == page_offset + 2 * i
        pf_index == page_offset - i
        pf_address == page * 4096 + pf_index * 64
    IN  IF i > 16 \/ st.aborted THEN st
        ELSE IF check_index2 > 63 THEN st
        ELSE IF pf_index < 0 THEN st
        ELSE IF st.count >= degree THEN st
        ELSE IF pf_index \in access_map \/ pf_index \in st.pf_map
        THEN NegativeScan(i + 1, st, degree, access_map, page, page_offset, occ, cl_address)
        ELSE IF check_index1 \in access_map /\ check_index2 \in access_map
        THEN LET s1 == IF AmpmNegToL2(occ)
                       THEN MshrRegister(
                                [st EXCEPT !.calls = Append(@, <<pf_address, FILL_L2>>)],
                                cl_address, ClOf(pf_address))
                       ELSE [st EXCEPT !.calls = Append(@, <<pf_address, FILL_LLC>>)]
                 s2 == IF s1.aborted THEN s1
                       ELSE [s1 EXCEPT !.pf_map = @ \cup {pf_index}, !.count = @ + 1]
             IN  NegativeScan(i + 1, s2, degree, access_map, page, page_offset, occ,
                              cl_address)
        ELSE NegativeScan(i + 1, st, degree, access_map, page, page_offset, occ, cl_address)

ampm_l2_prefetcher_operate(addr, cache_hit, s, w, occ) ==
    LET cl == ClOf(addr)
        page == PageOf(addr)
        page_offset == OffsetOf(addr)
        found == PageFind(page)
        page_index == IF found = -1 THEN LruIndex ELSE found
        p0 == IF found = -1 THEN PageReset(ampm_pages[page_index], page)
              ELSE ampm_pages[found]
        access_map == p0.access_map \cup {page_offset}
        st0 == [pf_map |-> p0.pf_map, count |-> 0, valid |-> mshr_valid,
                addrs |-> mshr_addr, late |-> DemandLateBit(cache_hit, cl),
                calls |-> <<>>, aborted |-> FALSE]
        st1 == PositiveScan(1, st0, prefetch_degree, access_map, page, page_offset, occ)
        st2 == NegativeScan(1, [st1 EXCEPT !.count = 0], prefetch_degree, access_map,
                            page, page_offset, occ, cl)
    IN  /\ variant = "AMPM"
        /\ ~aborted
        /\ useful_bit' = DemandUseful(cache_hit, s, w)
        /\ used_cnt' = DemandUsed(cache_hit, s, w, cl)
        /\ miss_cnt' = DemandMiss(cache_hit)
        /\ late_cnt' = DemandLate(cache_hit, cl)
        /\ miss_prefetch_cnt' = DemandMissPrefetch(cache_hit, cl)
        /\ ampm_pages' = [ampm_pages EXCEPT ![page_index] =
                             [page |-> page, access_map |-> access_map,
                              pf_map |-> st2.pf_map, lru |-> CurrentCycle]]
        /\ mshr_valid' = st2.valid
        /\ mshr_addr' = st2.addrs
        /\ late_bit' = st2.late
        /\ aborted' = st2.aborted
        /\ issued' = st2.calls
        /\ cycle' = cycle + 1
        /\ last' = [op |-> "access", hit |-> cache_hit,
                    useful |-> cache_hit /\ <<s, w>> \in useful_bit,
                    late |-> LateHit(cache_hit, cl) < MSHR_SIZE,
                    matched |-> "none", closed |-> FALSE,
                    prefetch |-> FALSE, evicted |-> FALSE]
        /\ UNCHANGED <<variant, prefetch_evict, prefetch_cnt, evict_cnt, totals, knobs,
                       detectors, replacement_index, intervals>>

(***************************************************************************)
(* l2_prefetcher_initialize, and the events the simulator delivers.        *)
(***************************************************************************)
\* the state after l2_prefetcher_initialize, with a page table of n entries
InitSized(n) ==
    /\ useful_bit = {}
    /\ mshr_addr = [i \in Slots |-> 0]
    /\ mshr_valid = [i \in Slots |-> 0]
    /\ late_bit = [i \in Slots |-> 0]
    /\ prefetch_evict = {}
    /\ used_cnt = 0 /\ prefetch_cnt = 0 /\ late_cnt = 0
    /\ miss_cnt = 0 /\ miss_prefetch_cnt = 0 /\ evict_cnt = 0
    /\ used_total = 0 /\ prefetch_total = 0 /\ late_total = 0
    /\ miss_total = 0 /\ miss_prefetch_total = 0
    /\ stream_window = 16
    /\ prefetch_degree = 2
    /\ aggressive_level = 3
    /\ detectors = [i \in 0 .. (STREAM_DETECTOR_COUNT - 1) |->
                       [page |-> 0, direction |-> 0, confidence |-> 0, pf_index |-> -1]]
    /\ replacement_index = 0
    /\ ampm_pages = [i \in 0 .. (n - 1) |->
                        [page |-> 0, access_map |-> {}, pf_map |-> {}, lru |-> 0]]
    /\ aborted = FALSE
    /\ cycle = 0
    /\ issued = <<>>
    /\ last = [op |-> "init", hit |-> FALSE, useful |-> FALSE, late |-> FALSE,
               matched |-> "none", closed |-> FALSE,
               prefetch |-> FALSE, evicted |-> FALSE]
    /\ intervals = 0
    /\ replay = [again |-> FALSE, log |-> <<>>, outs |-> <<>>]

InitShared == InitSized(AMPM_PAGE_COUNT)

(***************************************************************************)
(* The events the simulator delivers.  Spec, SpecFDP and SpecAMPM draw      *)
(* every argument and observation from the sets below and deliver up to    *)
(* MaxEvents events; SpecDeep delivers longer runs of a narrower traffic,   *)
(* enough to close several intervals: MaxDeep events to fdp.c, MaxDeepAmpm *)
(* events to ampm.c, whose traffic has more lines.                         *)
(***************************************************************************)
\* cache lines the simulated core touches, as byte addresses; lines 0 and 4097
\* share a pollution hash, as do lines 1 and 4096
FdpAddrs == {64 * l : l \in {0, 1, 4097, 4158, 4159}}
AmpmAddrs == {64 * l : l \in {2, 3, 4, 5, 4097}}
\* evicted_addr of a fill: 0 when the fill evicts nothing
Evicted == {0, 64 * 1, 64 * 4097}
\* <<set, way>> pairs the simulator reports
Ways == {<<0, 0>>, <<0, 1>>}
\* get_l2_mshr_occupancy(0) observations, on both sides of each threshold
FdpOcc == {8, 9}
AmpmOcc == {7, 8, 12}

FdpAccess ==
    \E addr \in FdpAddrs, hit \in BOOLEAN, sw \in Ways, occ \in FdpOcc, pf_way \in {-1, 0} :
        /\ cycle < MaxEvents
        /\ UNCHANGED replay
        /\ (~hit => sw = <<0, 0>>)
        /\ fdp_l2_prefetcher_operate(addr, hit, sw[1], sw[2], occ, pf_way)

FdpFill ==
    \E addr \in FdpAddrs, sw \in Ways, prefetch \in BOOLEAN, evicted_addr \in Evicted :
        /\ cycle < MaxEvents
        /\ UNCHANGED replay
        /\ variant = "FDP"
        /\ CacheFill(addr, sw[1], sw[2], prefetch, evicted_addr)

AmpmAccess ==
    \E addr \in AmpmAddrs, hit \in BOOLEAN, sw \in Ways, occ \in AmpmOcc :
        /\ cycle < MaxEvents
        /\ UNCHANGED replay
        /\ (~hit => sw = <<0, 0>>)
        /\ ampm_l2_prefetcher_operate(addr, hit, sw[1], sw[2], occ)

AmpmFill ==
    \E addr \in AmpmAddrs, sw \in Ways, prefetch \in BOOLEAN, evicted_addr \in Evicted :
        /\ cycle < MaxEvents
        /\ UNCHANGED replay
        /\ variant = "AMPM"
        /\ CacheFill(addr, sw[1], sw[2], prefetch, evicted_addr)

\* the narrower traffic of the long runs
DeepFdpAddrs == {64 * 1}
DeepFdpFillAddrs == {64 * 0, 64 * 1}
DeepAmpmAddrs == {64 * l : l \in {2, 3, 4, 5, 4097}}
DeepAmpmFillAddrs == {64 * 2}
DeepFdpEvicted == {64 * 1}
DeepAmpmEvicted == {64 * 5}

DeepFdpAccess ==
    \E addr \in DeepFdpAddrs, hit \in BOOLEAN, pf_way \in {-1, 0} :
        /\ cycle < MaxDeep
        /\ UNCHANGED replay
        /\ fdp_l2_prefetcher_operate(addr, hit, 0, 0, 8, pf_way)

DeepFdpFill ==
    \E addr \in DeepFdpFillAddrs, prefetch \in BOOLEAN, evicted_addr \in DeepFdpEvicted :
        /\ cycle < MaxDeep
        /\ UNCHANGED replay
        /\ variant = "FDP"
        /\ CacheFill(addr, 0, 0, prefetch, evicted_addr)

DeepAmpmAccess ==
    \E addr \in DeepAmpmAddrs :
        /\ cycle < MaxDeepAmpm
        /\ UNCHANGED replay
        /\ ampm_l2_prefetcher_operate(addr, FALSE, 0, 0, 7)

DeepAmpmFill ==
    \E addr \in DeepAmpmFillAddrs, prefetch \in BOOLEAN, evicted_addr \in DeepAmpmEvicted :
        /\ cycle < MaxDeepAmpm
        /\ UNCHANGED replay
        /\ variant = "AMPM"
        /\ CacheFill(addr, 0, 0, prefetch, evicted_addr)

InitFDP == variant = "FDP" /\ InitShared
InitAMPM == variant = "AMPM" /\ InitShared
Init == variant \in {"FDP", "AMPM"} /\ InitShared

NextFDP == FdpAccess \/ FdpFill
NextAMPM == AmpmAccess \/ AmpmFill
Next == FdpAccess \/ FdpFill \/ AmpmAccess \/ AmpmFill
NextDeep == DeepFdpAccess \/ DeepFdpFill \/ DeepAmpmAccess \/ DeepAmpmFill

SpecFDP == InitFDP /\ [][NextFDP]_vars
SpecAMPM == InitAMPM /\ [][NextAMPM]_vars
Spec == Init /\ [][Next]_vars
SpecDeep == Init /\ [][NextDeep]_vars

(***************************************************************************)
(* A fresh ascending stream for fdp.c: the n-th demand miss is at          *)
(* 0x1000 + 64 * n with L2 MSHR occupancy 0; the fills between the misses  *)
(* evict nothing, so no interval closes and miss_cnt is the number of      *)
(* misses delivered.                                                       *)
(***************************************************************************)
MaxStream == 6
StreamAddr(n) == 4096 + 64 * n

StreamAccess ==
    \E pf_way \in {-1, 0} :
        /\ cycle < MaxStream
        /\ UNCHANGED replay
        /\ fdp_l2_prefetcher_operate(StreamAddr(miss_cnt), FALSE, 0, 0, 0, pf_way)

StreamFill ==
    \E n \in 1 .. (MaxStream + 2), sw \in Ways, prefetch \in BOOLEAN :
        /\ cycle < MaxStream
        /\ UNCHANGED replay
        /\ variant = "FDP"
        /\ CacheFill(StreamAddr(n), sw[1], sw[2], prefetch, 0)

NextStream == StreamAccess \/ StreamFill
SpecStream == InitFDP /\ [][NextStream]_vars

(***************************************************************************)
(* Strided accesses to one fresh page for ampm.c: demand misses at the     *)
(* offsets below of page 1, which hold the stride pairs 10,13 and 14,15    *)
(* below offset 16 and the pair 20,24 above it.                            *)
(***************************************************************************)
MaxPattern == 7
PatternOffsets == {10, 13, 14, 15, 16, 20, 24}
PatternAddr(off) == 4096 + 64 * off

PatternAccess ==
    \E off \in PatternOffsets, occ \in {7, 12} :
        /\ cycle < MaxPattern
        /\ UNCHANGED replay
        /\ ampm_l2_prefetcher_operate(PatternAddr(off), FALSE, 0, 0, occ)

NextPattern == PatternAccess
SpecPattern == InitAMPM /\ [][NextPattern]_vars

(***************************************************************************)
(* Accesses around the stream window for fdp.c: offsets 14 and 15 of page  *)
(* 0, whose detector starts with pf_index -1, and offsets 4, 5, 20 and 40  *)
(* of page 1; the lines prefetched are already in L2.                      *)
(***************************************************************************)
MaxWindow == 6
WindowAddrs == {64 * l : l \in {14, 15, 68, 69, 84, 104}}

WindowAccess ==
    \E addr \in WindowAddrs :
        /\ cycle < MaxWindow
        /\ UNCHANGED replay
        /\ fdp_l2_prefetcher_operate(addr, FALSE, 0, 0, 0, 0)

NextWindow == WindowAccess
SpecWindow == InitFDP /\ [][NextWindow]_vars

(***************************************************************************)
(* An event log delivered twice.  The first run delivers up to MaxReplay   *)
(* events and keeps them, with the l2_prefetch_line calls and the level    *)
(* after each; then l2_prefetcher_initialize is called again, which writes *)
(* every global of the file except mshr_addr, and the same events with the *)
(* same observations (occupancy, l2_get_way, current cycle) are delivered  *)
(* again.                                                                  *)
(***************************************************************************)
MaxReplay == 5

\* the events of the log: an on_access or an on_fill with its arguments and
\* the observations its handler makes
ReplayEvents ==
    IF variant = "FDP"
    THEN {[op |-> "access", addr |-> 64 * l, flag |-> h, occ |-> 8, pf_way |-> -1, evicted |-> 0] :
             l \in {1}, h \in BOOLEAN}
         \cup {[op |-> "access", addr |-> 64 * 4097, flag |-> FALSE, occ |-> 8, pf_way |-> -1,
                evicted |-> 0]}
         \cup {[op |-> "fill", addr |-> 64 * l, flag |-> TRUE, occ |-> 0, pf_way |-> 0,
                evicted |-> 64 * 4097] : l \in {0, 1}}
         \cup {[op |-> "fill", addr |-> 0, flag |-> FALSE, occ |-> 0, pf_way |-> 0,
                evicted |-> 64 * 4097]}
    ELSE {[op |-> "access", addr |-> 64 * l, flag |-> FALSE, occ |-> 7, pf_way |-> 0, evicted |-> 0] :
             l \in {3, 4, 5, 4097}}
         \cup {[op |-> "fill", addr |-> 64 * 2, flag |-> p, occ |-> 0, pf_way |-> 0,
                evicted |-> 64 * 4097] : p \in BOOLEAN}

\* the simulator calls the handler of event e (flag: cache_hit of an access,
\* prefetch of a fill)
Deliver(e) ==
    IF e.op = "access"
    THEN IF variant = "FDP"
         THEN fdp_l2_prefetcher_operate(e.addr, e.flag, 0, 0, e.occ, e.pf_way)
         ELSE ampm_l2_prefetcher_operate(e.addr, e.flag, 0, 0, e.occ)
    ELSE CacheFill(e.addr, 0, 0, e.flag, e.evicted)

\* l2_prefetcher_initialize without the loop that resets the detectors
l2_prefetcher_initialize_KeepDetectors ==
    /\ useful_bit' = {}
    /\ mshr_addr' = mshr_addr
    /\ mshr_valid' = [i \in Slots |-> 0]
    /\ late_bit' = [i \in Slots |-> 0]
    /\ prefetch_evict' = {}
    /\ used_cnt' = 0 /\ prefetch_cnt' = 0 /\ late_cnt' = 0
    /\ miss_cnt' = 0 /\ miss_prefetch_cnt' = 0 /\ evict_cnt' = 0
    /\ used_total' = 0 /\ prefetch_total' = 0 /\ late_total' = 0
    /\ miss_total' = 0 /\ miss_prefetch_total' = 0
    /\ stream_window' = 16
    /\ prefetch_degree' = 2
    /\ aggressive_level' = 3
    /\ detectors' = detectors
    /\ replacement_index' = 0
    /\ ampm_pages' = [i \in Pages |->
                         [page |-> 0, access_map |-> {}, pf_map |-> {}, lru |-> 0]]


\* l2_prefetcher_initialize called on a used prefetcher: the assignments of
\* the function; mshr_addr is not among them
l2_prefetcher_initialize ==
    /\ useful_bit' = {}
    /\ mshr_addr' = mshr_addr
    /\ mshr_valid' = [i \in Slots |-> 0]
    /\ late_bit' = [i \in Slots |-> 0]
    /\ prefetch_evict' = {}
    /\ used_cnt' = 0 /\ prefetch_cnt' = 0 /\ late_cnt' = 0
    /\ miss_cnt' = 0 /\ miss_prefetch_cnt' = 0 /\ evict_cnt' = 0
    /\ used_total' = 0 /\ prefetch_total' = 0 /\ late_total' = 0
    /\ miss_total' = 0 /\ miss_prefetch_total' = 0
    /\ stream_window' = 16
    /\ prefetch_degree' = 2
    /\ aggressive_level' = 3
    /\ detectors' = [i \in 0 .. (STREAM_DETECTOR_COUNT - 1) |->
                        [page |-> 0, direction |-> 0, confidence |-> 0, pf_index |-> -1]]
    /\ replacement_index' = 0
    /\ ampm_pages' = [i \in Pages |->
                         [page |-> 0, access_map |-> {}, pf_map |-> {}, lru |-> 0]]

ReplayFirst ==
    \E e \in ReplayEvents :
        /\ ~replay.again
        /\ cycle < MaxReplay
        /\ Deliver(e)
        /\ replay' = [replay EXCEPT !.log = Append(@, e),
                                    !.outs = Append(@, <<issued', aggressive_level'>>)]

\* the second call of l2_prefetcher_initialize; the simulation starts over, so
\* the cycle counter does too
ReplayInit ==
    /\ ~replay.again
    /\ ~aborted
    /\ cycle > 0
    /\ l2_prefetcher_initialize
    /\ cycle' = 0
    /\ issued' = <<>>
    /\ last' = [op |-> "init", hit |-> FALSE, useful |-> FALSE, late |-> FALSE,
                matched |-> "none", closed |-> FALSE,
                prefetch |-> FALSE, evicted |-> FALSE]
    /\ intervals' = 0
    /\ replay' = [replay EXCEPT !.again = TRUE]
    /\ UNCHANGED <<variant, aborted>>

ReplayAgain ==
    /\ replay.again
    /\ cycle < Len(replay.log)
    /\ Deliver(replay.log[cycle + 1])
    /\ UNCHANGED replay

NextReplay == ReplayFirst \/ ReplayInit \/ ReplayAgain
SpecReplay == Init /\ [][NextReplay]_vars

(***************************************************************************)
(* A stream that turns round, for fdp.c: demand accesses to lines 0 and 1  *)
(* of page 0, so that the detector first prefetches upwards from pf_index  *)
(* -1 and, after accesses below pf_index, downwards over the lines it has  *)
(* already prefetched.                                                     *)
(***************************************************************************)
MaxTurn == 5
TurnAddrs == {0, 64}

TurnAccess ==
    \E addr \in TurnAddrs, hit \in BOOLEAN, occ \in FdpOcc, pf_way \in {-1, 0} :
        /\ cycle < MaxTurn
        /\ UNCHANGED replay
        /\ fdp_l2_prefetcher_operate(addr, hit, 0, 0, occ, pf_way)

NextTurn == TurnAccess
SpecTurn == InitFDP /\ [][NextTurn]_vars


(***************************************************************************)
(* A page table of TablePages entries for ampm.c, and demand misses to     *)
(* three pages (0, 1 and 64), one more than the model's table holds, so    *)
(* that entries are looked up, filled and replaced by lru.                 *)
(***************************************************************************)
TablePages == 2
MaxTable == 4
TableAddrs == {64 * l : l \in {2, 3, 66, 67, 4097}}

TableAccess ==
    \E addr \in TableAddrs :
        /\ cycle < MaxTable
        /\ UNCHANGED replay
        /\ ampm_l2_prefetcher_operate(addr, FALSE, 0, 0, 7)

InitTable == variant = "AMPM" /\ InitSized(TablePages)
NextTable == TableAccess
SpecTable == InitTable /\ [][NextTable]_vars


(***************************************************************************)
(* Properties.  An action property quantifies over the arguments of the    *)
(* handler that made the step.                                             *)
(***************************************************************************)
\* every address, evicted address and occupancy the events of the variant draw
AddrsOf ==
    IF variant = "FDP" THEN FdpAddrs \cup DeepFdpAddrs \cup DeepFdpFillAddrs
    ELSE AmpmAddrs \cup DeepAmpmAddrs \cup DeepAmpmFillAddrs
EvictedOf ==
    IF variant = "FDP" THEN Evicted \cup DeepFdpEvicted ELSE Evicted \cup DeepAmpmEvicted

\* the step is on_access(addr, hit) with l2_get_set / l2_get_way reporting sw
OnAccess(addr, hit, sw) ==
    IF variant = "FDP"
    THEN \E occ \in FdpOcc, pf_way \in {-1, 0} :
             fdp_l2_prefetcher_operate(addr, hit, sw[1], sw[2], occ, pf_way)
    ELSE \E occ \in AmpmOcc : ampm_l2_prefetcher_operate(addr, hit, sw[1], sw[2], occ)

\* the mirror holds a valid entry for line cl whose late bit is b
Tracked(cl, b) ==
    \E i \in Slots : mshr_valid[i] = 1 /\ mshr_addr[i] = cl /\ late_bit[i] = b

AllCountersZero ==
    /\ used_cnt = 0 /\ prefetch_cnt = 0 /\ late_cnt = 0
    /\ miss_cnt = 0 /\ miss_prefetch_cnt = 0

\* C1: in every reachable state aggressive_level is in 1..5 (3 until the first
\* interval closes), prefetch_degree is 1,1,2,4,4 for levels 1..5, and in the
\* FDP variant stream_window is 4,8,16,32,64 for levels 1..5.
C1_LevelAndKnobs ==
    /\ aggressive_level \in 1 .. 5
    /\ (intervals = 0 => aggressive_level = 3)
    /\ prefetch_degree = <<1, 1, 2, 4, 4>>[aggressive_level]
    /\ (variant = "FDP" => stream_window = <<4, 8, 16, 32, 64>>[aggressive_level])

C1_Witness ==
    /\ variant = "FDP" /\ intervals >= 2
    /\ aggressive_level = 5 /\ prefetch_degree = 4 /\ stream_window = 64

\* C2: the mirror never holds two valid entries for the same cache line.
C2_OneEntryPerLine ==
    \A i, j \in Slots :
        (i # j /\ mshr_valid[i] = 1 /\ mshr_valid[j] = 1) => mshr_addr[i] # mshr_addr[j]

\* C3: in the FDP variant the pf_index of every stream detector lies in [-1, 63].
C3_PfIndexInRange ==
    variant = "FDP" =>
        \A i \in 0 .. (STREAM_DETECTOR_COUNT - 1) : detectors[i].pf_index \in -1 .. 63

\* C4: registering a prefetch while the mirror is full raises no assertion failure.
C4_NoAssertionFailure == ~aborted

\* C5: a fill with a non-null evicted address counts one eviction; the fill in
\* which evict_cnt reaches T_INTERVAL leaves the five interval counters and
\* evict_cnt at zero, so evict_cnt is below T_INTERVAL whenever an event arrives.
C5_IntervalReset ==
    /\ [](evict_cnt \in 0 .. (T_INTERVAL - 1))
    /\ [][last'.op = "fill" =>
             LET ec == IF last'.evicted THEN evict_cnt + 1 ELSE evict_cnt
             IN  IF ec = T_INTERVAL
                 THEN evict_cnt' = 0 /\ AllCountersZero' /\ last'.closed
                 ELSE evict_cnt' = ec /\ ~last'.closed]_vars

C5_Witness ==
    /\ last.closed /\ evict_cnt = 0 /\ AllCountersZero
    /\ miss_total > 0 /\ prefetch_total > 0

\* the update table of the controller, row by row
C6_Delta(a, l, p) ==
    CASE a = 0 /\ l = 1 -> -1
      [] a = 0 /\ l = 0 /\ p = 0 -> 0
      [] a = 0 /\ l = 0 /\ p = 1 -> -1
      [] a = 1 /\ l = 1 /\ p = 0 -> 1
      [] a = 1 /\ l = 1 /\ p = 1 -> -1
      [] a = 1 /\ l = 0 /\ p = 0 -> 0
      [] a = 1 /\ l = 0 /\ p = 1 -> -1
      [] a = 2 /\ l = 1 -> 1
      [] a = 2 /\ l = 0 /\ p = 0 -> 0
      [] a = 2 /\ l = 0 /\ p = 1 -> -1

C6_Clamp(n) == IF n < 1 THEN 1 ELSE IF n > 5 THEN 5 ELSE n

\* C6: at each interval close the new level is clamp(level + D, 1, 5) with D
\* read from the table at the levels of the new totals; the level moves by at
\* most one, and a close with high accuracy and lateness at level 5 stays at 5.
C6_LevelUpdate ==
    [][last'.closed =>
          LET a == acc_level(used_total', prefetch_total')
              l == lat_level(late_total', used_total')
              p == pol_level(miss_prefetch_total', miss_total')
          IN  /\ aggressive_level' = C6_Clamp(aggressive_level + C6_Delta(a, l, p))
              /\ aggressive_level' - aggressive_level \in {-1, 0, 1}
              /\ (a = 2 /\ l = 1 /\ aggressive_level = 5 => aggressive_level' = 5)]_vars

C6_Witness ==
    /\ intervals = 3 /\ last.closed /\ aggressive_level = 5
    /\ acc_level(used_total, prefetch_total) = 2
    /\ lat_level(late_total, used_total) = 1

PollutionMiss ==
    /\ last'.op = "access" /\ ~last'.hit
    /\ \E addr \in AddrsOf :
           /\ VirtAddr(ClOf(addr)) \in prefetch_evict
           /\ OnAccess(addr, FALSE, <<0, 0>>)

IssuedFor(calls, page, k) ==
    \E n \in 1 .. Len(calls) : calls[n][1] = page * 4096 + k * 64

\* C9: in the AMPM variant a pf_map bit is set only by an event that issues a
\* prefetch for that (page, line); the maps are all zero after init, and an
\* entry that has just been given another page has pf_map all zero.
C9_PfMapIssued ==
    /\ [](cycle = 0 => \A i \in Pages : ampm_pages[i].pf_map = {})
    /\ [][variant = "AMPM" =>
             \A i \in Pages :
                 /\ \A k \in ampm_pages'[i].pf_map :
                        \/ /\ k \in ampm_pages[i].pf_map
                           /\ ampm_pages'[i].page = ampm_pages[i].page
                        \/ IssuedFor(issued', ampm_pages'[i].page, k)
                 /\ (ampm_pages'[i].page # ampm_pages[i].page
                         => ampm_pages'[i].pf_map = {})]_vars

C9_Witness ==
    /\ variant = "AMPM"
    /\ \E i \in Pages : \E k \in ampm_pages[i].pf_map :
           IssuedFor(issued, ampm_pages[i].page, k)

\* what already is in the mirror stays as it is
MirrorKept ==
    \A i \in Slots :
        mshr_valid[i] = 1 =>
            /\ mshr_valid'[i] = 1
            /\ mshr_addr'[i] = mshr_addr[i]
            /\ late_bit'[i] = late_bit[i]

\* C10 as stated: a demand hit on a line whose useful bit is 0 changes no
\* counter, no total, nothing in the mirror, no useful bit, no pollution bit.
C10_HitNoOpMirror ==
    [][(last'.op = "access" /\ last'.hit /\ ~last'.useful) =>
          UNCHANGED <<cnts, totals, mirror, useful_bit, prefetch_evict>>]_vars

\* C10 (amended): such a hit changes no counter, no total, no useful bit and
\* no pollution bit, and leaves every valid mirror entry as it is; the
\* detector run by the same event may add mirror entries for the prefetches
\* it issues.
C10_HitNoOp ==
    [][(last'.op = "access" /\ last'.hit /\ ~last'.useful) =>
          /\ UNCHANGED <<cnts, totals, useful_bit, prefetch_evict>>
          /\ MirrorKept]_vars

C10_Witness ==
    /\ last.op = "access" /\ last.hit /\ ~last.useful
    /\ useful_bit # {} /\ \E i \in Slots : mshr_valid[i] = 1

\* the detector watching page, when there is one
DetectorOf(page) == detectors[DetectorFind(page)]

\* C11: on a fresh ascending stream of misses at 0x1000, 0x1040, 0x1080, 0x10C0
\* the detector of the page has confidence >= 2 and direction +1 after the
\* fourth miss, and the next access of the stream issues exactly the prefetches
\* 0x1100 and 0x1140, both to L2.
C11_FreshStream ==
    /\ [](miss_cnt = 4 =>
            /\ DetectorFind(1) # -1
            /\ DetectorOf(1).confidence >= 2
            /\ DetectorOf(1).direction = 1)
    /\ [][(last'.op = "access" /\ miss_cnt = 4) =>
             issued' = << <<4352, FILL_L2>>, <<4416, FILL_L2>> >>]_vars

\* a total after one close that folds in a zero count: halved, and snapped to 0
\* below eps = 1e-3
C12_Halved(t) ==
    LET h == t \div 2
    IN  IF h * 1000 < Scale THEN 0 ELSE h

\* closes with zero counts until a total is 0
RECURSIVE C12_ClosesToZero(_)
C12_ClosesToZero(t) == IF t = 0 THEN 0 ELSE 1 + C12_ClosesToZero(C12_Halved(t))

\* ceil(log2(t / eps)) for t >= eps: the least n with t / eps <= 2^n
RECURSIVE C12_CeilLog2(_, _)
C12_CeilLog2(t, n) == IF t * 1000 <= Scale * 2^n THEN n ELSE C12_CeilLog2(t, n + 1)

\* C12: when an interval closes with the five interval counters at zero, every
\* smoothed total is halved and snapped to 0 below eps, so a total that is 0
\* stays 0; a total reaches 0 within ceil(log2(total / eps)) + 1 such closes.
C12_EwmaDecay ==
    /\ [](\A t \in {used_total, prefetch_total, late_total, miss_total,
                    miss_prefetch_total} :
              t # 0 => C12_ClosesToZero(t) <= C12_CeilLog2(t, 0) + 1)
    /\ [][(last'.closed /\ AllCountersZero /\ ~last'.prefetch) =>
             /\ used_total' = C12_Halved(used_total)
             /\ prefetch_total' = C12_Halved(prefetch_total)
             /\ late_total' = C12_Halved(late_total)
             /\ miss_total' = C12_Halved(miss_total)
             /\ miss_prefetch_total' = C12_Halved(miss_prefetch_total)]_vars

\* C13: in the AMPM variant a prefetch is issued only for a line of the page
\* whose access_map and pf_map bits are clear, no line is issued twice by one
\* access, an issued line is marked in pf_map, and the marks stay while the
\* page stays installed: at most one prefetch per (page, offset).
C13_OnePrefetchPerLine ==
    [][variant = "AMPM" =>
          /\ \A i \in Pages :
                 ampm_pages'[i].page = ampm_pages[i].page =>
                     /\ ampm_pages[i].pf_map \subseteq ampm_pages'[i].pf_map
                     /\ ampm_pages[i].access_map \subseteq ampm_pages'[i].access_map
          /\ last'.op = "access" =>
                 \A n \in 1 .. Len(issued') :
                     LET a == issued'[n][1]
                         k == OffsetOf(a)
                         i == PageFind(PageOf(a))
                     IN  /\ i # -1 => /\ k \notin ampm_pages[i].pf_map
                                      /\ k \notin ampm_pages[i].access_map
                         /\ \A m \in 1 .. Len(issued') : m # n => issued'[m][1] # a
                         /\ \E j \in Pages :
                                /\ ampm_pages'[j].page = PageOf(a)
                                /\ k \notin ampm_pages'[j].access_map
                                /\ ~aborted' => k \in ampm_pages'[j].pf_map]_vars

\* after misses at offsets 10, 13, 16 of page 1 issued the prefetch of offset
\* 19, a fourth access to the page (a repeat, as no other bit is set) issued
\* nothing
C13_Witness ==
    /\ variant = "AMPM" /\ cycle = 4 /\ last.op = "access" /\ issued = <<>>
    /\ \E i \in Pages :
           /\ ampm_pages[i].page = 1 /\ ampm_pages[i].lru = 4
           /\ ampm_pages[i].access_map = {10, 13, 16}
           /\ 19 \in ampm_pages[i].pf_map

\* the detector an access to page trains: the one found, or a fresh one at the
\* offset of the access
C14_Trained(page, off) ==
    IF DetectorFind(page) = -1
    THEN [page |-> page, direction |-> 0, confidence |-> 0, pf_index |-> off]
    ELSE detectors[DetectorFind(page)]

\* C14: in the FDP variant an access at distance D = offset - pf_index from the
\* detector trains it exactly when 0 < |D| < stream_window: then direction is
\* the sign of D and confidence is counted up, or reset when the direction was
\* the opposite one; at D = 0 and at |D| >= stream_window, the boundary
\* |D| = stream_window included, direction and confidence stay as they were.
C14_WindowBoundary ==
    [][last'.op = "access" =>
          \A addr \in WindowAddrs :
              fdp_l2_prefetcher_operate(addr, FALSE, 0, 0, 0, 0) =>
                  LET d == C14_Trained(PageOf(addr), OffsetOf(addr))
                      D == OffsetOf(addr) - d.pf_index
                  IN  \E i \in 0 .. (STREAM_DETECTOR_COUNT - 1) :
                          /\ detectors'[i].page = PageOf(addr)
                          /\ IF 0 < D /\ D < stream_window
                             THEN /\ detectors'[i].direction = 1
                                  /\ detectors'[i].confidence =
                                        IF d.direction = -1 THEN 0 ELSE d.confidence + 1
                             ELSE IF D < 0 /\ 0 - D < stream_window
                             THEN /\ detectors'[i].direction = -1
                                  /\ detectors'[i].confidence =
                                        IF d.direction = 1 THEN 0 ELSE d.confidence + 1
                             ELSE /\ detectors'[i].direction = d.direction
                                  /\ detectors'[i].confidence = d.confidence]_vars

\* the first access came at offset 15 of page 0, at D = 16 = stream_window from
\* the initial pf_index -1, and left the detector untrained (offset 14 trains)
C14_Witness ==
    /\ variant = "FDP" /\ cycle = 1 /\ last.op = "access" /\ stream_window = 16
    /\ \E i \in 0 .. (STREAM_DETECTOR_COUNT - 1) :
           detectors[i] = [page |-> 0, direction |-> 0, confidence |-> 0, pf_index |-> -1]
    /\ \A i \in 0 .. (STREAM_DETECTOR_COUNT - 1) : detectors[i].page = 0

\* C15: determinism.  When an event log is delivered a second time after
\* l2_prefetcher_initialize, with the same arguments and observations, every
\* event produces the l2_prefetch_line calls (address and fill level) and the
\* aggressive_level that it produced in the first run from init, and assert
\* failures fall on the same events.
C15_Deterministic ==
    (replay.again /\ cycle >= 1) =>
        /\ cycle <= Len(replay.outs)
        /\ <<issued, aggressive_level>> = replay.outs[cycle]

\* a log of MaxReplay events with prefetch calls and a level change has been
\* delivered twice, the second time over mirror slots that kept their
\* addresses from the first run
C15_Witness ==
    /\ replay.again /\ cycle = MaxReplay /\ Len(replay.log) = MaxReplay
    /\ \E k \in 1 .. MaxReplay : replay.outs[k][1] # <<>>
    /\ \E k \in 1 .. MaxReplay : replay.outs[k][2] # 3
    /\ \E i \in Slots : mshr_addr[i] # 0


\* C16: in the AMPM variant every prefetch of an access, from the positive or
\* the negative scan, goes to L2 exactly when the observed L2 MSHR occupancy
\* is below 8, and to the LLC otherwise.
C16_SameThreshold ==
    [][(variant = "AMPM" /\ last'.op = "access") =>
          \A addr \in AmpmAddrs, hit \in BOOLEAN, sw \in Ways, occ \in AmpmOcc :
              ampm_l2_prefetcher_operate(addr, hit, sw[1], sw[2], occ) =>
                  \A k \in 1 .. Len(issued') :
                      issued'[k][2] = IF occ < 8 THEN FILL_L2 ELSE FILL_LLC]_vars


\* calls k of an access to addr that the negative scan sent to L2: the scan
\* below the accessed offset
C17_NegativeL2(calls, addr) ==
    {k \in 1 .. Len(calls) : calls[k][2] = FILL_L2 /\ ClOf(calls[k][1]) < ClOf(addr)}

\* C17: in the AMPM variant, when the negative scan of an access issues line p
\* to L2 and the mirror has a free slot or already tracks p, the mirror holds
\* a valid entry for the cache line of p after the access; an access whose
\* calls all come from the positive scan or go to the LLC leaves the valid
\* bits and the addresses of the mirror as they were.
C17_NegativeScanRegisters ==
    [][(variant = "AMPM" /\ last'.op = "access") =>
          \A addr \in AmpmAddrs, hit \in BOOLEAN, sw \in Ways, occ \in AmpmOcc :
              ampm_l2_prefetcher_operate(addr, hit, sw[1], sw[2], occ) =>
                  /\ \A k \in C17_NegativeL2(issued', addr) :
                         (/\ ~aborted'
                          /\ \/ \E i \in Slots : mshr_valid[i] = 0
                             \/ \E i \in Slots : mshr_valid[i] = 1
                                                 /\ mshr_addr[i] = ClOf(issued'[k][1]))
                         => \E i \in Slots : /\ mshr_valid'[i] = 1
                                             /\ mshr_addr'[i] = ClOf(issued'[k][1])
                  /\ C17_NegativeL2(issued', addr) = {}
                         => (mshr_valid' = mshr_valid /\ mshr_addr' = mshr_addr)]_vars


\* C18: in the FDP variant every prefetch step of an access goes to the LLC
\* when the L2 MSHR occupancy is above 8, and then the valid bits and the
\* addresses of the mirror stay as they were; otherwise it goes to L2, and
\* when the line is not in L2 (l2_get_way = -1) and no assert failed, the
\* mirror afterwards holds a valid entry for the line with late = 1, while
\* for a line that is in L2 the mirror stays as it was.
C18_StepRegistersLate ==
    [][(variant = "FDP" /\ last'.op = "access") =>
          \A addr \in TurnAddrs, hit \in BOOLEAN, occ \in FdpOcc, pf_way \in {-1, 0} :
              fdp_l2_prefetcher_operate(addr, hit, 0, 0, occ, pf_way) =>
                  /\ \A k \in 1 .. Len(issued') :
                         issued'[k][2] = IF occ > 8 THEN FILL_LLC ELSE FILL_L2
                  /\ (occ > 8 \/ pf_way # -1) =>
                         (mshr_valid' = mshr_valid /\ mshr_addr' = mshr_addr)
                  /\ (occ <= 8 /\ pf_way = -1 /\ ~aborted') =>
                         \A k \in 1 .. Len(issued') :
                             \E i \in Slots : /\ mshr_valid'[i] = 1
                                              /\ mshr_addr'[i] = ClOf(issued'[k][1])
                                              /\ late_bit'[i] = 1]_vars


C20_DegreePerAccess ==
    [][(variant = "AMPM" /\ last'.op = "access") =>
          Len(issued') <= prefetch_degree]_vars


\* C21: in the AMPM variant no two entries of the page table hold the same
\* page number in any reachable state, the state after init included; and an
\* entry that is given a new page is one with the smallest lru, holds
\* afterwards only the accessed offset in access_map and nothing in pf_map,
\* and no other entry changes.
C21_UniquePages ==
    /\ [](variant = "AMPM" =>
             \A i \in Pages, j \in Pages : i # j => ampm_pages[i].page # ampm_pages[j].page)
    /\ [][variant = "AMPM" =>
             \A i \in Pages :
                 ampm_pages'[i].page # ampm_pages[i].page =>
                     /\ \A j \in Pages : ampm_pages[i].lru <= ampm_pages[j].lru
                     /\ Cardinality(ampm_pages'[i].access_map) = 1
                     /\ ampm_pages'[i].pf_map = {}
                     /\ \A j \in Pages : j # i => ampm_pages'[j] = ampm_pages[j]]_vars


\* C22: in every reachable state of either variant late_cnt <= used_cnt and
\* miss_prefetch_cnt <= miss_cnt, and every mirror slot whose late bit is 1
\* is valid.
C22_CounterOrder ==
    /\ late_cnt <= used_cnt
    /\ miss_prefetch_cnt <= miss_cnt
    /\ \A i \in Slots : late_bit[i] = 1 => mshr_valid[i] = 1

\* a late prefetch has been counted (as late and as used), pollution misses
\* have been counted, and the mirror holds a consumed entry beside a late one
C22_Witness ==
    /\ late_cnt = 1 /\ used_cnt = 1
    /\ miss_prefetch_cnt >= 1 /\ miss_cnt >= miss_prefetch_cnt
    /\ \E i \in Slots : mshr_valid[i] = 1 /\ late_bit[i] = 1
    /\ \E i \in Slots : mshr_valid[i] = 1 /\ late_bit[i] = 0


\* C23: frame of the two handlers.  An access leaves aggressive_level,
\* prefetch_degree, stream_window, evict_cnt, prefetch_cnt, the smoothed
\* totals and the pollution vector as they were; a fill leaves the detectors,
\* replacement_index and the page table as they were; and the level or a knob
\* changes only in a fill whose eviction brings evict_cnt to T_INTERVAL, the
\* level by one step at most.
C23_Frame ==
    [][/\ last'.op = "access" =>
              /\ UNCHANGED <<aggressive_level, prefetch_degree, stream_window>>
              /\ UNCHANGED <<evict_cnt, prefetch_cnt, prefetch_evict>>
              /\ UNCHANGED <<used_total, prefetch_total, late_total, miss_total,
                             miss_prefetch_total>>
       /\ last'.op = "fill" => UNCHANGED <<detectors, replacement_index, ampm_pages>>
       /\ knobs' # knobs =>
              /\ last'.op = "fill" /\ last'.evicted
              /\ evict_cnt + 1 = T_INTERVAL
              /\ aggressive_level' - aggressive_level \in {-1, 0, 1}]_vars

\* a fill has just closed the first interval and moved the level one step,
\* with detector or page-table state present that the fill left alone
C23_Witness ==
    /\ last.op = "fill" /\ last.closed /\ intervals = 1
    /\ aggressive_level \in {2, 4}
    /\ \/ \E i \in DOMAIN detectors : detectors[i].confidence > 0
       \/ \E i \in Pages : ampm_pages[i].access_map # {}


\* the larger of two counts
C24_Max(a, b) == IF a < b THEN b ELSE a

\* C24: in the FDP variant the prefetch count folded at an interval close is
\* the larger of used_cnt and the prefetch fills of the interval plus the
\* mirror entries valid at the close, so it is at least the used count folded
\* with it; and prefetch_total >= used_total in every reachable state, so
\* the accuracy used_total / prefetch_total is at most 1.
C24_PrefetchAtLeastUsed ==
    /\ [](variant = "FDP" => prefetch_total >= used_total)
    /\ [][(variant = "FDP" /\ last'.op = "fill" /\ last'.closed) =>
             LET fills == IF last'.prefetch THEN prefetch_cnt + 1 ELSE prefetch_cnt
                 inflight == Cardinality({i \in Slots : mshr_valid'[i] = 1})
                 folded == C24_Max(used_cnt, fills + inflight)
             IN  /\ folded >= used_cnt
                 /\ prefetch_total' = Ewma(prefetch_total, folded)
                 /\ used_total' = Ewma(used_total, used_cnt)]_vars

\* the first close of fdp.c has folded a used count that came from a late
\* demand miss, with no valid mirror entry left: the two totals are equal and
\* not zero, which is the case in which used_cnt bounds the folded count
C24_Witness ==
    /\ variant = "FDP" /\ last.op = "fill" /\ last.closed /\ intervals = 1
    /\ used_total > 0 /\ late_total = used_total /\ prefetch_total = used_total
    /\ \A i \in Slots : mshr_valid[i] = 0
====
